---- MODULE Spec2Model ----
(***************************************************************************)
(* Model of pyabf/epochs.py: class Epochs.                                 *)
(*                                                                         *)
(* The object keeps one Python list per waveform-editor field (parallel    *)
(* lists).  __init__ runs _initEpochVars, then either _updateForABFv1 or   *)
(* _addPreEpoch / _fillEpochsFromABF / _addPostEpoch, then                 *)
(* _createEpochLabels and _updateEpochDetails; pc is the position inside   *)
(* __init__ and is "ready" once the constructor has returned.  The public  *)
(* operations (text, stimulusWaveform, __len__, __str__) run on a ready    *)
(* object; `out` holds what the last public operation returned or raised.  *)
(*                                                                         *)
(* Python lists are 0-based; the sequences here are 1-based, so list       *)
(* element i is sequence element i+1.  Sample indices (pointStart,         *)
(* pointEnd) keep their 0-based Python values.  Levels are floats in the   *)
(* ABF header; they are modelled by integers (no claim depends on          *)
(* fractional values).                                                     *)
(***************************************************************************)
EXTENDS Integers, Sequences, FiniteSets, TLC

VARIABLES abf, channel, pc,
          pointStart, pointEnd, label, type, level, levelDelta, duration,
          durationDelta, pulsePeriod, pulseWidth, digitalOutputs,
          pointOffset, epochCount, dacUnits, out

hdr == <<abf, channel>>
lists == <<pointStart, pointEnd, type, level, levelDelta, duration,
           durationDelta, pulsePeriod, pulseWidth, digitalOutputs>>
details == <<epochCount, dacUnits>>
vars == <<abf, channel, pc, pointStart, pointEnd, label, type, level,
          levelDelta, duration, durationDelta, pulsePeriod, pulseWidth,
          digitalOutputs, pointOffset, epochCount, dacUnits, out>>

(***************************************************************************)
(* Bounds of the model.                                                    *)
(***************************************************************************)
MaxTable == 2          \* entries in the header's epoch table
MaxDuration == 1       \* lEpochInitDuration of a table entry
MaxSweep == 1          \* sweepNumber passed to stimulusWaveform

Channels == {0, 1}
EpochTypes == {0, 1, 2, 3}          \* Off, Step, Ramp, an unsupported code
SweepPointCounts == {0, 1, 65}      \* 65 gives a pre-epoch of one sample
\* nInterEpisodeLevel of the two channels (one sustains, the other reverts)
InterEpisodeLevels == {<<0, 1>>, <<1, 0>>}

\* header values of table entry i (distinct per column, so that a mix-up
\* of two columns or of two entries is visible)
InitLevelOf(i) == 10 * i - 70
LevelIncOf(i) == 5 * (2 - i)
DurationIncOf(i) == i
PulsePeriodOf(i) == 20 + i
PulseWidthOf(i) == 30 + i
HoldingCommands == <<-80, 20>>
DacUnitNames == <<"mV", "pA">>

(***************************************************************************)
(* Python values of a list that holds ints and strs (self.type).           *)
(***************************************************************************)
PyInt(n) == [isStr |-> FALSE, n |-> n, s |-> ""]
PyStr(s) == [isStr |-> TRUE, n |-> 0, s |-> s]
\* Python's  value == n  for an int n: a str never equals an int
PyEqInt(v, n) == ~v.isStr /\ v.n = n

Last(s) == s[Len(s)]
SetLast(s, v) == [s EXCEPT ![Len(s)] = v]
Min(a, b) == IF a < b THEN a ELSE b
Max(a, b) == IF a > b THEN a ELSE b

(***************************************************************************)
(* The state on entry to __init__'s format branch: the header, and the     *)
(* empty lists of _initEpochVars.                                          *)
(***************************************************************************)
Init ==
    /\ \E fmt \in {1, 2}, n \in 0..MaxTable, spc \in SweepPointCounts,
          inter \in InterEpisodeLevels :
         \E dac \in [1..n -> Channels], ty \in [1..n -> EpochTypes],
            dur \in [1..n -> 0..MaxDuration] :
            abf = [abfFileFormat |-> fmt,
                   sweepPointCount |-> spc,
                   holdingCommand |-> HoldingCommands,
                   dacUnits |-> DacUnitNames,
                   nInterEpisodeLevel |-> inter,
                   nDACNum |-> dac,
                   nEpochType |-> ty,
                   fEpochInitLevel |-> [i \in 1..n |-> InitLevelOf(i)],
                   fEpochLevelInc |-> [i \in 1..n |-> LevelIncOf(i)],
                   lEpochInitDuration |-> dur,
                   lEpochDurationInc |-> [i \in 1..n |-> DurationIncOf(i)],
                   lEpochPulsePeriod |-> [i \in 1..n |-> PulsePeriodOf(i)],
                   lEpochPulseWidth |-> [i \in 1..n |-> PulseWidthOf(i)]]
    /\ channel \in Channels
    /\ pc = "init"
    /\ pointStart = <<>>
    /\ pointEnd = <<>>
    /\ label = <<>>
    /\ type = <<>>
    /\ level = <<>>
    /\ levelDelta = <<>>
    /\ duration = <<>>
    /\ durationDelta = <<>>
    /\ pulsePeriod = <<>>
    /\ pulseWidth = <<>>
    /\ digitalOutputs = <<>>
    /\ pointOffset = 0
    /\ epochCount = 0
    /\ dacUnits = ""
    /\ out = [op |-> "none", arg |-> 0, raised |-> FALSE, warned |-> FALSE,
             value |-> 0]

\* a plausible slip: the holding command of channel 0, whatever the channel
HoldingOfChannel0 == abf.holdingCommand[1]
\* abf.holdingCommand[self.channel]
Holding == abf.holdingCommand[channel + 1]
\* a plausible slip: the branches of the flag exchanged
SustainInverted == abf.nInterEpisodeLevel[channel + 1] = 0
\* abf._dacSection.nInterEpisodeLevel[self.channel], used as a truth value
Sustain == abf.nInterEpisodeLevel[channel + 1] # 0

(***************************************************************************)
(* _updateForABFv1                                                         *)
(***************************************************************************)
UpdateForABFv1 ==
    /\ pc = "init"
    /\ abf.abfFileFormat = 1
    /\ pointStart' = Append(pointStart, 0)
    /\ pointEnd' = Append(pointEnd, abf.sweepPointCount)
    /\ type' = Append(type, PyInt(1))
    /\ level' = Append(level, Holding)
    /\ levelDelta' = Append(levelDelta, 0)
    /\ duration' = Append(duration, abf.sweepPointCount)
    /\ durationDelta' = Append(durationDelta, 0)
    /\ pulsePeriod' = Append(pulsePeriod, 0)
    /\ pulseWidth' = Append(pulseWidth, 0)
    /\ digitalOutputs' = Append(digitalOutputs, abf.sweepPointCount)
    /\ pc' = "labels"
    /\ UNCHANGED <<hdr, label, pointOffset, details, out>>

(***************************************************************************)
(* _addPreEpoch                                                            *)
(***************************************************************************)
\* int(sweepPointCount/64) for a non-negative sweepPointCount
PreOffset(spc) == spc \div 64

AddPreEpoch ==
    /\ pc = "init"
    /\ abf.abfFileFormat = 2
    /\ pointOffset' = PreOffset(abf.sweepPointCount)
    /\ pointStart' = Append(pointStart, 0)
    /\ pointEnd' = Append(pointEnd, pointOffset')
    /\ type' = Append(type, PyInt(1))
    /\ level' = Append(level, Holding)
    /\ levelDelta' = Append(levelDelta, 0)
    /\ duration' = Append(duration, pointOffset')
    /\ durationDelta' = Append(durationDelta, 0)
    /\ pulsePeriod' = Append(pulsePeriod, 0)
    /\ pulseWidth' = Append(pulseWidth, 0)
    /\ digitalOutputs' = Append(digitalOutputs, pointOffset')
    /\ pc' = "fill"
    /\ UNCHANGED <<hdr, label, details, out>>

(***************************************************************************)
(* _fillEpochsFromABF: the loop over the epoch table, on a record of the   *)
(* lists it appends to.                                                    *)
(***************************************************************************)
\* the start of the epoch appended for a table entry
NextStart(L) == Last(L.pointStart) + Last(L.duration)

\* one pass of the loop body for table entry i (1-based)
FillOne(L, i) ==
    IF abf.nDACNum[i] # channel
    THEN L
    ELSE LET start == NextStart(L)
             dur == abf.lEpochInitDuration[i]
         IN [pointStart |-> Append(L.pointStart, start),
             type |-> Append(L.type, PyInt(abf.nEpochType[i])),
             level |-> Append(L.level, abf.fEpochInitLevel[i]),
             levelDelta |-> Append(L.levelDelta, abf.fEpochLevelInc[i]),
             duration |-> Append(L.duration, dur),
             durationDelta |-> Append(L.durationDelta,
                                      abf.lEpochDurationInc[i]),
             pulsePeriod |-> Append(L.pulsePeriod, abf.lEpochPulsePeriod[i]),
             pulseWidth |-> Append(L.pulseWidth, abf.lEpochPulseWidth[i]),
             pointEnd |-> Append(L.pointEnd, start + dur)]

RECURSIVE FillFrom(_, _)
FillFrom(L, i) ==
    IF i > Len(abf.nDACNum) THEN L ELSE FillFrom(FillOne(L, i), i + 1)

FillEpochsFromABF ==
    /\ pc = "fill"
    /\ LET L == FillFrom([pointStart |-> pointStart, type |-> type,
                          level |-> level, levelDelta |-> levelDelta,
                          duration |-> duration,
                          durationDelta |-> durationDelta,
                          pulsePeriod |-> pulsePeriod,
                          pulseWidth |-> pulseWidth,
                          pointEnd |-> pointEnd], 1)
       IN /\ pointStart' = L.pointStart
          /\ type' = L.type
          /\ level' = L.level
          /\ levelDelta' = L.levelDelta
          /\ duration' = L.duration
          /\ durationDelta' = L.durationDelta
          /\ pulsePeriod' = L.pulsePeriod
          /\ pulseWidth' = L.pulseWidth
          /\ pointEnd' = L.pointEnd
    /\ pc' = "post"
    /\ UNCHANGED <<hdr, label, digitalOutputs, pointOffset, details, out>>

(***************************************************************************)
(* _addPostEpoch                                                           *)
(***************************************************************************)
\* a plausible slip: the sustained end without the  - 1
SustainEndNoMinusOne == abf.sweepPointCount + pointOffset
\* the end bound given to the sustained last epoch
SustainEnd == abf.sweepPointCount - 1 + pointOffset
\* a plausible slip: the "+1?" of the code's TODO taken
PostStartPlusOne == Last(pointEnd) + 1
\* the bounds and level of the appended epoch
PostStart == Last(pointEnd)
PostEnd == abf.sweepPointCount + pointOffset
\* a plausible slip: reverting to the holding command
PostLevelHolding == abf.holdingCommand[channel + 1]
PostLevel == Last(level)

AddPostEpoch ==
    /\ pc = "post"
    /\ IF Sustain
       THEN /\ pointEnd' = SetLast(pointEnd, SustainEnd)
            /\ UNCHANGED <<pointStart, type, level, levelDelta, duration,
                           durationDelta, pulsePeriod, pulseWidth>>
       ELSE /\ pointStart' = Append(pointStart, PostStart)
            /\ pointEnd' = Append(pointEnd, PostEnd)
            /\ type' = Append(type, PyInt(1))
            /\ level' = Append(level, PostLevel)
            /\ levelDelta' = Append(levelDelta, 0)
            /\ duration' = Append(duration, 0)
            /\ durationDelta' = Append(durationDelta, 0)
            /\ pulsePeriod' = Append(pulsePeriod, 0)
            /\ pulseWidth' = Append(pulseWidth, 0)
    /\ pc' = "labels"
    /\ UNCHANGED <<hdr, label, digitalOutputs, pointOffset, details, out>>

(***************************************************************************)
(* _createEpochLabels                                                      *)
(***************************************************************************)
\* chr(x + 64) for the x this model reaches
Chr64 == <<"@", "A", "B", "C", "D", "E", "F", "G", "H", "I", "J">>
Chr(c) == Chr64[c - 63]

\* the two relabelling assignments, in the order the code makes them
Relabel(lab, dur) ==
    LET l1 == [lab EXCEPT ![1] = "pre"]
    IN IF Last(dur) = 0 THEN SetLast(l1, "post") ELSE l1

CreateEpochLabels ==
    /\ pc = "labels"
    /\ label' = Relabel([x \in 1..Len(type) |-> Chr((x - 1) + 64)], duration)
    /\ pc' = "details"
    /\ UNCHANGED <<hdr, lists, pointOffset, details, out>>

(***************************************************************************)
(* _updateEpochDetails                                                     *)
(***************************************************************************)
UpdateEpochDetails ==
    /\ pc = "details"
    /\ epochCount' = Len(type)
    /\ dacUnits' = abf.dacUnits[channel + 1]
    /\ pc' = "ready"
    /\ UNCHANGED <<hdr, lists, label, pointOffset, out>>

\* self.epochList = range(self.epochCount)
epochList == 0..(epochCount - 1)

(***************************************************************************)
(* String helpers of the text report.                                      *)
(***************************************************************************)
Digits == <<"0", "1", "2", "3", "4", "5", "6", "7", "8", "9">>

RECURSIVE NatToStr(_)
NatToStr(n) ==
    IF n < 10 THEN Digits[n + 1]
    ELSE NatToStr(n \div 10) \o Digits[(n % 10) + 1]

\* "%d" % n
IntToStr(n) == IF n < 0 THEN "-" \o NatToStr(0 - n) ELSE NatToStr(n)

\* s.rjust(w, ' ')
RECURSIVE RJust(_, _)
RJust(s, w) == IF Len(s) >= w THEN s ELSE RJust(" " \o s, w)

\* ", ".join(strs)
RECURSIVE Join(_)
Join(strs) ==
    IF Len(strs) = 0 THEN ""
    ELSE IF Len(strs) = 1 THEN strs[1]
    ELSE strs[1] \o ", " \o Join(Tail(strs))

(***************************************************************************)
(* _txtFmt                                                                 *)
(***************************************************************************)
\* the name written over an int type code ("%d?" for an unsupported code)
TypeName(n) ==
    IF n = 0 THEN "Off"
    ELSE IF n = 1 THEN "Step"
    ELSE IF n = 2 THEN "Ramp"
    ELSE IntToStr(n) \o "?"

\* what the "Type" loop leaves in values[i]: the list passed in is the
\* object's own list, so the assignment values[i] = ... changes self.type
TypeCell(v) == PyStr(TypeName(v.n))

\* the "Type" loop from element i (1-based) on.  An element that already is
\* a str equals none of 0, 1, 2 and reaches  "%d?" % value, which raises
\* TypeError; the elements before it stay rewritten.
RECURSIVE TypeLoop(_, _)
TypeLoop(values, i) ==
    IF i > Len(values) THEN [values |-> values, raised |-> FALSE]
    ELSE IF values[i].isStr THEN [values |-> values, raised |-> TRUE]
    ELSE TypeLoop([values EXCEPT ![i] = TypeCell(values[i])], i + 1)

\* the line built from the label and the cells (each already a str)
RECURSIVE Cells(_)
Cells(strs) ==
    IF Len(strs) = 0 THEN "" ELSE RJust(strs[1], 7) \o Cells(Tail(strs))

TxtLine(lab, strs) == RJust(lab, 25) \o Cells(strs) \o "\n"

\* cells of a list of ints
NumCells(values) == [i \in 1..Len(values) |-> IntToStr(values[i])]
\* cells of the type list after the "Type" loop
StrCells(values) == [i \in 1..Len(values) |-> values[i].s]

(***************************************************************************)
(* text (property)                                                         *)
(***************************************************************************)
Text ==
    /\ pc = "ready"
    /\ LET t == TypeLoop(type, 1)
       IN /\ type' = t.values
          /\ out' =
               IF t.raised
               THEN [op |-> "text", arg |-> 0, raised |-> TRUE,
                     warned |-> FALSE, value |-> ""]
               ELSE [op |-> "text", arg |-> 0, raised |-> FALSE,
                     warned |-> \E i \in 1..Len(type) : type[i].n \notin {0, 1, 2},
                     value |->
                        "\n"
                        \o TxtLine("Ch" \o IntToStr(channel) \o " EPOCH", label)
                        \o TxtLine("Type", StrCells(t.values))
                        \o TxtLine("First Level (" \o dacUnits \o ")",
                                   NumCells(level))
                        \o TxtLine("Delta Level (" \o dacUnits \o ")",
                                   NumCells(levelDelta))
                        \o TxtLine("First Duration (samples)",
                                   NumCells(duration))
                        \o TxtLine("Delta Duration (samples)",
                                   NumCells(durationDelta))
                        \o TxtLine("Train Period (samples)",
                                   NumCells(pulsePeriod))
                        \o TxtLine("Pulse Width (samples)",
                                   NumCells(pulseWidth))
                        \o TxtLine("Epoch Start (samples)",
                                   NumCells(pointStart))
                        \o TxtLine("Epoch End (samples)", NumCells(pointEnd))
                        \o "\n"]
    /\ UNCHANGED <<hdr, pc, pointStart, pointEnd, label, level, levelDelta,
                   duration, durationDelta, pulsePeriod, pulseWidth,
                   digitalOutputs, pointOffset, details>>

(***************************************************************************)
(* stimulusWaveform                                                        *)
(***************************************************************************)
\* np.full(n, v)
Full(n, v) == [j \in 1..n |-> v]

\* start or stop of a[i1:i2] on an array of length n, as Python resolves it
SliceBound(i, n) == IF i < 0 THEN Max(i + n, 0) ELSE Min(i, n)

\* the body of the epoch loop for one epoch e (0-based) on the signal built
\* so far; w is [arr, raised, warned]
FillEpoch(w, e, sweepNumber) ==
    IF PyEqInt(type[e + 1], 0) THEN w
    ELSE
      LET sweepLevel == level[e + 1] + levelDelta[e + 1] * sweepNumber
          n == Len(w.arr)
          i1 == pointStart[e + 1]
          clamp == pointEnd[e + 1] > n
          i2 == IF clamp THEN n ELSE pointEnd[e + 1]
          warned == w.warned \/ clamp
          lo == SliceBound(i1, n)
          hi == SliceBound(i2, n)
          sliceLen == Max(hi - lo, 0)
      IN IF i2 - i1 < 0
         THEN \* np.empty of a negative size: ValueError
              [arr |-> w.arr, raised |-> TRUE, warned |-> warned]
         ELSE IF sliceLen # i2 - i1 /\ i2 - i1 # 1
         THEN \* the chunk cannot be broadcast into the slice: ValueError
              [arr |-> w.arr, raised |-> TRUE, warned |-> warned]
         ELSE [arr |-> [j \in 1..n |->
                          IF lo < j /\ j <= hi THEN sweepLevel ELSE w.arr[j]],
               raised |-> FALSE, warned |-> warned]

\* the epoch loop from epoch e on; an exception ends it
RECURSIVE EpochLoop(_, _, _)
EpochLoop(w, e, sweepNumber) ==
    IF e \notin epochList \/ w.raised THEN w
    ELSE EpochLoop(FillEpoch(w, e, sweepNumber), e + 1, sweepNumber)

Waveform(sweepNumber) ==
    EpochLoop([arr |-> Full(abf.sweepPointCount, Holding),
               raised |-> FALSE, warned |-> FALSE], 0, sweepNumber)

StimulusWaveform ==
    /\ pc = "ready"
    /\ \E sweepNumber \in 0..MaxSweep :
         LET w == Waveform(sweepNumber)
         IN out' = [op |-> "stimulusWaveform", arg |-> sweepNumber,
                    raised |-> w.raised, warned |-> w.warned,
                    value |-> IF w.raised THEN <<>> ELSE w.arr]
    /\ UNCHANGED <<hdr, pc, lists, label, pointOffset, details>>

(***************************************************************************)
(* __len__ and __str__                                                     *)
(***************************************************************************)
PyLen ==
    /\ pc = "ready"
    /\ out' = [op |-> "len", arg |-> 0, raised |-> FALSE, warned |-> FALSE,
               value |-> Cardinality(epochList)]
    /\ UNCHANGED <<hdr, pc, lists, label, pointOffset, details>>

PyStrOf ==
    /\ pc = "ready"
    /\ out' = [op |-> "str", arg |-> 0, raised |-> FALSE, warned |-> FALSE,
               value |-> "Channel " \o IntToStr(channel) \o " epochs ("
                         \o IntToStr(epochCount) \o "): " \o Join(label)]
    /\ UNCHANGED <<hdr, pc, lists, label, pointOffset, details>>

Next ==
    \/ UpdateForABFv1
    \/ AddPreEpoch
    \/ FillEpochsFromABF
    \/ AddPostEpoch
    \/ CreateEpochLabels
    \/ UpdateEpochDetails
    \/ Text
    \/ StimulusWaveform
    \/ PyLen
    \/ PyStrOf

Spec == Init /\ [][Next]_vars

\* the constructor alone: __init__ from entry to return
NextBuild ==
    \/ UpdateForABFv1
    \/ AddPreEpoch
    \/ FillEpochsFromABF
    \/ AddPostEpoch
    \/ CreateEpochLabels
    \/ UpdateEpochDetails

SpecBuild == Init /\ [][NextBuild]_vars
(***************************************************************************)
(* Properties.                                                             *)
(***************************************************************************)
Legacy == abf.abfFileFormat = 1
Segmented == abf.abfFileFormat = 2
sweepLength == abf.sweepPointCount
preOffset == abf.sweepPointCount \div 64
holdingLevel == abf.holdingCommand[channel + 1]
sustainFlag == abf.nInterEpisodeLevel[channel + 1] # 0
\* the table entries of the target channel
Selected == {i \in 1..Len(abf.nDACNum) : abf.nDACNum[i] = channel}
Count == Len(type)
Step == PyInt(1)
\* the first n elements of a list
Prefix(s, n) == [i \in 1..n |-> s[i]]

\* C2: in a constructed segmented-format timeline every epoch ends where
\* the next one starts.
C2_Contiguous ==
    (pc = "ready" /\ Segmented) =>
        \A i \in 1..(Count - 1) : pointEnd[i] = pointStart[i + 1]

\* two real epochs of non-zero duration between the pre- and the post-epoch
C2_Witness ==
    /\ pc = "ready" /\ Segmented /\ ~sustainFlag
    /\ sweepLength = 65
    /\ Count = 4
    /\ duration[2] > 0 /\ duration[3] > 0

C7_SustainExtends ==
    [][(pc = "post" /\ sustainFlag) =>
         /\ Len(type') = 1 + Cardinality(Selected)
         /\ pointEnd' = [pointEnd EXCEPT ![Count] = sweepLength - 1 + preOffset]
         /\ UNCHANGED <<pointStart, type, level, levelDelta, duration,
                        durationDelta, pulsePeriod, pulseWidth,
                        digitalOutputs>>]_vars

\* a real epoch whose end was moved by the extension
C7_Witness ==
    /\ pc = "labels" /\ Segmented /\ sustainFlag
    /\ Count >= 2
    /\ Count = 1 + Cardinality(Selected)
    /\ Last(pointEnd) = sweepLength - 1 + preOffset
    /\ Last(pointEnd) # Last(pointStart) + Last(duration)

\* the first epoch is the synthetic pre-epoch
PreEpochFirst ==
    /\ Count >= 1
    /\ pointStart[1] = 0
    /\ type[1] = Step
    /\ level[1] = holdingLevel
    /\ levelDelta[1] = 0
    /\ duration[1] = preOffset

\* the last epoch is a synthetic post-epoch, an epoch of its own
PostEpochLast ==
    /\ Count >= 2
    /\ Last(type) = Step
    /\ Last(duration) = 0
    /\ Last(levelDelta) = 0
    /\ Last(pointStart) = pointEnd[Count - 1]
    /\ Last(pointEnd) = sweepLength + preOffset

\* C8 as stated: every constructed timeline is non-empty and holds both a
\* synthetic pre-epoch and a synthetic post-epoch.
C8_PreAndPostAlways ==
    pc = "ready" => (Count >= 1 /\ PreEpochFirst /\ PostEpochLast)

\* C8 (amended): every constructed timeline is non-empty; a segmented-format
\* timeline starts with the synthetic pre-epoch and, when the sustain flag
\* is false, ends with a synthetic post-epoch, also when no table entry is
\* for the target channel.
C8_NonEmptyPrePost ==
    pc = "ready" =>
        /\ Count >= 1
        /\ Segmented => PreEpochFirst
        /\ (Segmented /\ ~sustainFlag) => PostEpochLast

\* no table entry for the target channel: the pre- and the post-epoch alone
C8_Witness ==
    /\ pc = "ready" /\ Segmented /\ ~sustainFlag
    /\ Selected = {}
    /\ Len(abf.nDACNum) > 0
    /\ Count = 2

\* C10: a legacy-format timeline is exactly one Step epoch [0, sweepLength)
\* at the channel's holding command with all deltas zero.
C10_LegacySingleEpoch ==
    (pc = "ready" /\ Legacy) =>
        /\ epochCount = 1
        /\ pointStart = <<0>>
        /\ pointEnd = <<sweepLength>>
        /\ type = <<Step>>
        /\ level = <<holdingLevel>>
        /\ levelDelta = <<0>>
        /\ durationDelta = <<0>>
        /\ Len(duration) = 1 /\ Len(pulsePeriod) = 1 /\ Len(pulseWidth) = 1
        /\ Len(label) = 1

\* a legacy header that has table entries for the channel and the sustain
\* flag set
C10_Witness ==
    /\ pc = "ready" /\ Legacy /\ sustainFlag
    /\ Selected # {}
    /\ channel = 1
    /\ sweepLength = 65
    /\ epochCount = 1

\* C5: the first label is "pre", and a final epoch of base duration 0 is
\* labelled "post".
C5_Labels ==
    pc = "ready" =>
        /\ label[1] = "pre"
        /\ Last(duration) = 0 => Last(label) = "post"

\* C9: every epoch of a constructed timeline has 0 <= start <= end.
C9_BoundsOrdered ==
    pc = "ready" =>
        \A i \in 1..Count : 0 <= pointStart[i] /\ pointStart[i] <= pointEnd[i]

\* C1: stimulusWaveform returns, without raising, an array of sweepLength
\* samples, for every timeline and sweep number.
C1_WaveformNeverRaises ==
    out.op = "stimulusWaveform" =>
        (~out.raised /\ Len(out.value) = sweepLength)

\* the kind of an epoch is Off (as the int code, or as the name text wrote
\* over it)
KindOff(v) == IF v.isStr THEN v.s = "Off" ELSE v.n = 0
\* the epochs (1-based) that are not Off and whose clamped range holds
\* sample j (0-based)
Covering(j) ==
    {e \in 1..Count :
        /\ ~KindOff(type[e])
        /\ pointStart[e] <= j
        /\ j < Min(pointEnd[e], sweepLength)}
MaxOf(S) == CHOOSE m \in S : \A x \in S : x <= m
\* what the claim gives sample j at sweep k
Expected(j, k) ==
    IF Covering(j) = {} THEN holdingLevel
    ELSE level[MaxOf(Covering(j))] + levelDelta[MaxOf(Covering(j))] * k

\* C3: stimulusWaveform(k) returns the array in which every sample has the
\* level + levelDelta*k of the last epoch, not Off, whose clamped range
\* holds it, and the holding level where there is none.
C3_WaveformLevels ==
    out.op = "stimulusWaveform" =>
        /\ ~out.raised
        /\ Len(out.value) = sweepLength
        /\ \A j \in 0..(sweepLength - 1) :
              out.value[j + 1] = Expected(j, out.arg)

\* C4: no public operation on a constructed timeline changes an epoch field.
C4_EpochFieldsFrozen ==
    [][pc = "ready" =>
         UNCHANGED <<type, level, levelDelta, duration, durationDelta,
                     pulsePeriod, pulseWidth, pointStart, pointEnd,
                     label>>]_vars
====
